---- MODULE Spec2Model ----
(***************************************************************************)
(* A model of src/src/braid.ts: the Braid value, its construction and the  *)
(* request handler handleCrossingRequest with the helpers it calls.        *)
(*                                                                         *)
(* braid.crossings is a JavaScript Set<Crossing> of object references.     *)
(* Every helper puts freshly allocated objects into the sets it builds, so *)
(* two members are never the same object although they may carry the same  *)
(* fields; a Set iterates in insertion order.  The set is therefore        *)
(* modelled as the sequence of its members in insertion order.             *)
(***************************************************************************)
EXTENDS Integers, Sequences, FiniteSets

\* Requests and initial crossings are drawn from rows 0..MaxRow and columns
\* 0..MaxCol (plus the out-of-range and edge indices of the braid at hand).
MaxRow == 1
MaxCol == 3
\* Largest number of members of a crossings set on which a further request is
\* followed (the braid that request returns may hold one more).
MaxCrossings == 2
\* Largest number of members of a crossings set a caller-built braid starts with.
MaxInitCrossings == 2
\* Largest number of members of a crossings set on which a repeated request
\* is followed.
MaxRepeats == 50

\* createBraid's dimensions
DefaultLength == 10
DefaultRopes == 10

VARIABLES
  braid,     \* the braid the caller currently holds
  arg,       \* the braid passed to the last handleCrossingRequest call
  argNow,    \* what the object passed to the last call holds after the call
  location,  \* the [colIndex, rowIndex] pair passed to the last call
  outcome,   \* how the last call ended: "none" | "braid" | "null" | "error"
  ret,       \* the braid the last call returned (NoBraid if it returned none)
  err,       \* which Error the last call threw ("none" if it threw none)
  origin,    \* the braid at the start of the current run of requests
  streak     \* successful requests in a row at the same location, 0..3

vars == <<braid, arg, argNow, location, outcome, ret, err, origin, streak>>

\* type CrossingKind = "S" | "Z"
CrossingKind == {"S", "Z"}

\* type Crossing = { kind, rowIndex, colIndex }
Crossing(kind, rowIndex, colIndex) ==
  [kind |-> kind, rowIndex |-> rowIndex, colIndex |-> colIndex]

\* the absence of a returned Braid (a throw, a null, or no call yet)
NoBraid == [length |-> 0, ropes |-> 0, crossings |-> <<>>]

createBraidShort ==
  [length |-> DefaultLength - 1, ropes |-> DefaultRopes, crossings |-> <<>>]

\* createBraid(): a 10X10 braid with no crossings
createBraid == [length |-> DefaultLength, ropes |-> DefaultRopes, crossings |-> <<>>]

\* cloneBraid: same length and ropes, a new Set of a field-by-field copy of
\* every member, in the same order
cloneBraid(b) ==
  [length |-> b.length,
   ropes |-> b.ropes,
   crossings |-> [i \in 1..Len(b.crossings) |->
                    [kind |-> b.crossings[i].kind,
                     rowIndex |-> b.crossings[i].rowIndex,
                     colIndex |-> b.crossings[i].colIndex]]]

createCrossingFresh(crossing, b) ==
  [cloneBraid(b) EXCEPT !.crossings = <<crossing>>]

\* createCrossing: clone, then new Set([...newBraid.crossings, crossing])
createCrossing(crossing, b) ==
  LET newBraid == cloneBraid(b)
  IN [newBraid EXCEPT !.crossings = Append(newBraid.crossings, crossing)]

\* the predicate removeCrossing hands to filter (an element is KEPT when it
\* is true)
removeFilter(crossing, rowIndex, colIndex) ==
  crossing.rowIndex = rowIndex /\ crossing.colIndex = colIndex

\* removeCrossing: clone, then new Set([...newBraid.crossings].filter(...))
removeCrossing(rowIndex, colIndex, b) ==
  LET newBraid == cloneBraid(b)
      keep(crossing) == removeFilter(crossing, rowIndex, colIndex)
  IN [newBraid EXCEPT !.crossings = SelectSeq(newBraid.crossings, keep)]

\* updateCrossing: createCrossing(crossing, removeCrossing(row, col, braid))
updateCrossing(crossing, b) ==
  createCrossing(crossing, removeCrossing(crossing.rowIndex, crossing.colIndex, b))

\* the four range checks of handleCrossingRequest, in the order of the code
negativeY(rowIndex) == rowIndex < 0
negativeX(colIndex) == colIndex < 0

yTooHighOffByOne(b, rowIndex) == rowIndex > b.length

yTooHigh(b, rowIndex) == rowIndex > b.length - 1

xTooHighOffByOne(b, colIndex) == colIndex > b.ropes - 1

xTooHigh(b, colIndex) == colIndex > b.ropes - 2

\* const crossingsInRow = [...braid.crossings].filter(c => c.rowIndex === rowIndex)
crossingsInRow(b, rowIndex) ==
  LET inRow(crossing) == crossing.rowIndex = rowIndex
  IN SelectSeq(b.crossings, inRow)

Abs(n) == IF n < 0 THEN -n ELSE n

someAdjacentNoAbs(inRow, colIndex) ==
  \E i \in 1..Len(inRow) : inRow[i].colIndex - colIndex = 1

someAdjacentEvery(inRow, colIndex) ==
  \A i \in 1..Len(inRow) : Abs(inRow[i].colIndex - colIndex) = 1

someAdjacentOrSame(inRow, colIndex) ==
  \E i \in 1..Len(inRow) : Abs(inRow[i].colIndex - colIndex) <= 1

\* crossingsInRow.some(c => Math.abs(c.colIndex - colIndex) === 1)
someAdjacent(inRow, colIndex) ==
  \E i \in 1..Len(inRow) : Abs(inRow[i].colIndex - colIndex) = 1

\* crossingsInRow.find(c => c.colIndex === colIndex): the members find's
\* predicate accepts, in order; find returns the first, or undefined if none
crossingAtLocation(inRow, colIndex) ==
  LET atCol(crossing) == crossing.colIndex = colIndex
  IN SelectSeq(inRow, atCol)

Thrown(e) == [outcome |-> "error", err |-> e, ret |-> NoBraid]
Returned(b) == [outcome |-> "braid", err |-> "none", ret |-> b]
ReturnedNull == [outcome |-> "null", err |-> "none", ret |-> NoBraid]

handleCrossingRequestXFirst(b, colIndex, rowIndex) ==
  IF negativeX(colIndex) THEN Thrown("NegativeX")
  ELSE IF negativeY(rowIndex) THEN Thrown("NegativeY")
  ELSE IF yTooHigh(b, rowIndex) THEN Thrown("YTooHigh")
  ELSE IF xTooHigh(b, colIndex) THEN Thrown("XTooHigh")
  ELSE
    LET inRow == crossingsInRow(b, rowIndex)
        found == crossingAtLocation(inRow, colIndex)
    IN IF someAdjacent(inRow, colIndex) THEN ReturnedNull
       ELSE IF found = <<>>
         THEN Returned(createCrossing(Crossing("S", rowIndex, colIndex), b))
       ELSE IF Head(found).kind = "S"
         THEN Returned(updateCrossing(Crossing("Z", rowIndex, colIndex), b))
       ELSE Returned(removeCrossing(rowIndex, colIndex, b))

\* handleCrossingRequest(braid, [colIndex, rowIndex]): Braid | null, or a throw
handleCrossingRequest(b, colIndex, rowIndex) ==
  IF negativeY(rowIndex) THEN Thrown("NegativeY")
  ELSE IF negativeX(colIndex) THEN Thrown("NegativeX")
  ELSE IF yTooHigh(b, rowIndex) THEN Thrown("YTooHigh")
  ELSE IF xTooHigh(b, colIndex) THEN Thrown("XTooHigh")
  ELSE
    LET inRow == crossingsInRow(b, rowIndex)
        found == crossingAtLocation(inRow, colIndex)
    IN IF someAdjacent(inRow, colIndex) THEN ReturnedNull
       ELSE IF found = <<>>
         THEN Returned(createCrossing(Crossing("S", rowIndex, colIndex), b))
       ELSE IF Head(found).kind = "S"
         THEN Returned(updateCrossing(Crossing("Z", rowIndex, colIndex), b))
       ELSE Returned(removeCrossing(rowIndex, colIndex, b))

\* The helpers store into one object only: `newBraid.crossings = ...` (lines
\* 68 and 92), where `const newBraid = cloneBraid(braid)` (lines 65 and 89).
\* storeTarget names the object that store reaches, given the object the
\* helper was handed: cloneBraid returns a new object literal, so it is
\* always a "clone" and never the helper's parameter.
storeTargetAlias(param) == param

storeTarget(param) == "clone"

\* What the handler's braid argument holds once the call is over.  Only the
\* three helper branches store anything; each helper hands its own parameter
\* on to its store (updateCrossing: removeCrossing's result to createCrossing),
\* so the argument is written, with the crossings of the result, exactly if a
\* store into the helper's parameter reaches the parameter itself.
argumentAfter(b, colIndex, rowIndex) ==
  LET r == handleCrossingRequest(b, colIndex, rowIndex)
  IN IF r.outcome = "braid" /\ storeTarget("argument") = "argument"
       THEN [b EXCEPT !.crossings = r.ret.crossings]
       ELSE b

\* the indices a caller passes: the window and the first out-of-range index
\* on either side of the braid at hand
Rows(b) == (-1..MaxRow) \cup {b.length}
Cols(b) == (-1..MaxCol) \cup {b.ropes - 1}

\* One call of handleCrossingRequest on the braid the caller holds; the
\* caller adopts a returned braid and keeps its braid on null or a throw.
Handled(colIndex, rowIndex) ==
  LET r == handleCrossingRequest(braid, colIndex, rowIndex)
      same == location = <<colIndex, rowIndex>> /\ streak \in 1..2
  IN /\ arg' = braid
     /\ argNow' = argumentAfter(braid, colIndex, rowIndex)
     /\ location' = <<colIndex, rowIndex>>
     /\ outcome' = r.outcome
     /\ err' = r.err
     /\ ret' = r.ret
     /\ braid' = IF r.outcome = "braid" THEN r.ret ELSE braid
     /\ streak' = IF r.outcome # "braid" THEN 0
                  ELSE IF same THEN streak + 1 ELSE 1
     /\ origin' = IF r.outcome = "braid" /\ same THEN origin ELSE braid

Request(colIndex, rowIndex) ==
  /\ Len(braid.crossings) <= MaxCrossings
  /\ Handled(colIndex, rowIndex)

Start(b) ==
  /\ braid = b
  /\ arg = b
  /\ argNow = b
  /\ location = <<0, 0>>
  /\ outcome = "none"
  /\ ret = NoBraid
  /\ err = "none"
  /\ origin = b
  /\ streak = 0

\* the program's own runs: the braid comes from createBraid()
Init == Start(createBraid)

Next == \E colIndex \in Cols(braid), rowIndex \in Rows(braid) : Request(colIndex, rowIndex)

Spec == Init /\ [][Next]_vars

\* A caller that repeats its request: every call is at the location of the
\* first one, on braids of up to MaxRepeats members.
Repeat(colIndex, rowIndex) ==
  /\ outcome = "none" \/ location = <<colIndex, rowIndex>>
  /\ Len(braid.crossings) <= MaxRepeats
  /\ Handled(colIndex, rowIndex)

NextRepeat == \E colIndex \in Cols(braid), rowIndex \in Rows(braid) : Repeat(colIndex, rowIndex)

SpecRepeat == Init /\ [][NextRepeat]_vars

\* Braid is an exported type: a caller may hand handleCrossingRequest any
\* Braid value.  The braids a caller builds: two sizes and up to
\* MaxInitCrossings members with any kinds and any cells of the window.
RECURSIVE SeqsUpTo(_, _)
SeqsUpTo(S, n) ==
  IF n = 0 THEN {<<>>}
  ELSE LET shorter == SeqsUpTo(S, n - 1)
       IN shorter \cup {Append(s, x) : s \in shorter, x \in S}

WindowCrossings ==
  {Crossing(k, r, c) : k \in CrossingKind, r \in 0..MaxRow, c \in 0..MaxCol}

\* the window-sized braid (its last row is MaxRow, its last column MaxCol)
\* and the default-sized one
AnySizes == {<<MaxRow + 1, MaxCol + 2>>, <<DefaultLength, DefaultRopes>>}

AnyBraids ==
  {[length |-> d[1], ropes |-> d[2], crossings |-> cs] :
     d \in AnySizes, cs \in SeqsUpTo(WindowCrossings, MaxInitCrossings)}

InitAny == \E b \in AnyBraids : Start(b)

\* handleCrossingRequest as a function of its arguments: one call on a braid
\* the caller built, at any location
Call(colIndex, rowIndex) == outcome = "none" /\ Request(colIndex, rowIndex)

NextAny == \E colIndex \in Cols(braid), rowIndex \in Rows(braid) : Call(colIndex, rowIndex)

SpecAny == InitAny /\ [][NextAny]_vars

(***************************************************************************)
(* Vocabulary of the properties below, in the words of the data model.     *)
(***************************************************************************)
Called == outcome # "none"
reqCol == location[1]
reqRow == location[2]

\* the members of b's crossing set, compared by (kind, rowIndex, colIndex)
Members(b) == {b.crossings[i] : i \in 1..Len(b.crossings)}
\* the positions, in b's crossing set, of the members at cell (r, c)
MembersAt(b, r, c) ==
  {i \in 1..Len(b.crossings) : b.crossings[i].rowIndex = r /\ b.crossings[i].colIndex = c}
KindsAt(b, r, c) == {b.crossings[i].kind : i \in MembersAt(b, r, c)}
MembersElsewhere(b, r, c) == {x \in Members(b) : ~(x.rowIndex = r /\ x.colIndex = c)}
HasAdjacent(b, r, c) ==
  \E x \in Members(b) : x.rowIndex = r /\ (x.colIndex = c - 1 \/ x.colIndex = c + 1)
InBounds(b, r, c) == 0 <= r /\ r <= b.length - 1 /\ 0 <= c /\ c <= b.ropes - 2

AtMostOnePerCell(b) ==
  \A i, j \in 1..Len(b.crossings) :
    (b.crossings[i].rowIndex = b.crossings[j].rowIndex
       /\ b.crossings[i].colIndex = b.crossings[j].colIndex) => i = j
NoAdjacentPair(b) ==
  \A x, y \in Members(b) :
    x.rowIndex = y.rowIndex => x.colIndex - y.colIndex \notin {1, -1}
AllInBounds(b) == \A x \in Members(b) : InBounds(b, x.rowIndex, x.colIndex)
\* the three invariants of the data model
WellFormed(b) == AllInBounds(b) /\ NoAdjacentPair(b) /\ AtMostOnePerCell(b)

\* the braid a call returns (NoBraid for null or a throw)
After(b, c, r) == handleCrossingRequest(b, c, r).ret

(***************************************************************************)
(* C1.  From a braid whose requested cell is empty and has no adjacent     *)
(* crossing in its row, three requests in a row at that cell take it       *)
(* through empty -> S -> Z -> empty, and after the third the crossing set  *)
(* is the original one; from createBraid(), requesting (3,2) three times   *)
(* gives {S at (2,3)}, {Z at (2,3)}, {}.                                   *)
(***************************************************************************)
C1_ThreeRequestsCycle ==
  /\ (streak >= 1 /\ KindsAt(origin, reqRow, reqCol) = {}
        /\ ~HasAdjacent(origin, reqRow, reqCol)) =>
       /\ streak = 1 => KindsAt(braid, reqRow, reqCol) = {"S"}
       /\ streak = 2 => KindsAt(braid, reqRow, reqCol) = {"Z"}
       /\ streak = 3 => Members(braid) = Members(origin)
       /\ streak = 3 =>
            LET b1 == After(createBraid, 3, 2)
                b2 == After(b1, 3, 2)
                b3 == After(b2, 3, 2)
            IN /\ Members(b1) = {Crossing("S", 2, 3)}
               /\ Members(b2) = {Crossing("Z", 2, 3)}
               /\ handleCrossingRequest(b2, 3, 2).outcome = "braid"
               /\ Members(b3) = {}

(***************************************************************************)
(* C2.  A request at an in-bounds empty cell with no adjacent crossing in  *)
(* its row returns a braid whose crossing set is the input's plus exactly  *)
(* one new S crossing at that cell; every other crossing is unchanged.     *)
(***************************************************************************)
C2_EmptyCellGetsS ==
  (Called /\ InBounds(arg, reqRow, reqCol)
     /\ KindsAt(arg, reqRow, reqCol) = {}
     /\ ~HasAdjacent(arg, reqRow, reqCol)) =>
    /\ outcome = "braid"
    /\ ret.crossings = Append(arg.crossings, Crossing("S", reqRow, reqCol))
    /\ braid = ret

C2_Witness ==
  /\ Called /\ InBounds(arg, reqRow, reqCol)
  /\ KindsAt(arg, reqRow, reqCol) = {}
  /\ ~HasAdjacent(arg, reqRow, reqCol)
  /\ Len(arg.crossings) = 2
  /\ Len(ret.crossings) = 3

(***************************************************************************)
(* C3.  A request at an in-bounds cell that holds an S crossing, with no   *)
(* adjacent crossing in its row, returns a braid in which that cell holds  *)
(* a Z crossing and no S crossing.                                         *)
(***************************************************************************)
C3_SBecomesZ ==
  (Called /\ InBounds(arg, reqRow, reqCol)
     /\ KindsAt(arg, reqRow, reqCol) = {"S"}
     /\ ~HasAdjacent(arg, reqRow, reqCol)) =>
    /\ outcome = "braid"
    /\ KindsAt(ret, reqRow, reqCol) = {"Z"}

(***************************************************************************)
(* C4.  On a braid that satisfies the data-model invariants, a request at  *)
(* an in-bounds cell that holds a Z crossing, with no adjacent crossing in *)
(* its row, returns a braid with no crossing at that cell and with every   *)
(* crossing the input had at any other cell.                               *)
(***************************************************************************)
C4_ZBecomesEmpty ==
  (Called /\ WellFormed(arg) /\ InBounds(arg, reqRow, reqCol)
     /\ KindsAt(arg, reqRow, reqCol) = {"Z"}
     /\ ~HasAdjacent(arg, reqRow, reqCol)) =>
    /\ outcome = "braid"
    /\ KindsAt(ret, reqRow, reqCol) = {}
    /\ MembersElsewhere(arg, reqRow, reqCol) \subseteq Members(ret)

(***************************************************************************)
(* C5.  Every braid reached from createBraid() by handleCrossingRequest    *)
(* calls has at most one crossing per (rowIndex, colIndex) pair.           *)
(***************************************************************************)
C5_AtMostOnePerCell == AtMostOnePerCell(braid)

(***************************************************************************)
(* C6.  In every braid reached from createBraid() by handleCrossingRequest *)
(* calls, no two crossings of one row have column indices that differ by   *)
(* exactly 1.                                                              *)
(***************************************************************************)
C6_NoAdjacentCrossings == NoAdjacentPair(braid)

C6_Witness ==
  /\ outcome = "null"
  /\ \E x, y \in Members(braid) :
       x.rowIndex = y.rowIndex /\ x.colIndex + 2 = y.colIndex
          /\ reqRow = x.rowIndex /\ reqCol = x.colIndex + 1

(***************************************************************************)
(* C7.  An in-bounds request at column c of a row that holds a crossing at *)
(* column c-1 or c+1 returns null, returns no braid, and leaves the        *)
(* caller's braid as it was; after S is placed at (row 2, col 3) on        *)
(* createBraid(), the request (colIndex=4,rowIndex=2) is rejected and the  *)
(* crossing set remains {S at (2,3)}.                                      *)
(***************************************************************************)
C7_AdjacentRejected ==
  /\ (Called /\ InBounds(arg, reqRow, reqCol) /\ HasAdjacent(arg, reqRow, reqCol)) =>
       /\ outcome = "null"
       /\ ret = NoBraid
       /\ braid = arg
  /\ Called =>
       LET b1 == After(createBraid, 3, 2)
       IN /\ Members(b1) = {Crossing("S", 2, 3)}
          /\ handleCrossingRequest(b1, 4, 2) = ReturnedNull

C7_Witness ==
  /\ outcome = "null"
  /\ arg = [createBraid EXCEPT !.crossings = <<Crossing("S", 1, 2)>>]
  /\ location = <<3, 1>>
  /\ braid = arg

(***************************************************************************)
(* C8.  Whatever crossings the braid holds, a request with rowIndex < 0,   *)
(* rowIndex > length - 1, colIndex < 0 or colIndex > ropes - 2 throws a    *)
(* range error for a condition the request violates (it returns neither a  *)
(* braid nor null); (rowIndex=10, colIndex=0) on the default braid throws  *)
(* the row-index-too-large error.                                          *)
(***************************************************************************)
C8_OutOfRangeThrows ==
  /\ (Called /\ ~InBounds(arg, reqRow, reqCol)) =>
       /\ outcome = "error"
       /\ ret = NoBraid
       /\ braid = arg
       /\ err \in {"NegativeY", "NegativeX", "YTooHigh", "XTooHigh"}
       /\ err = "NegativeY" => reqRow < 0
       /\ err = "NegativeX" => reqCol < 0
       /\ err = "YTooHigh" => reqRow > arg.length - 1
       /\ err = "XTooHigh" => reqCol > arg.ropes - 2
  /\ Called => handleCrossingRequest(createBraid, 0, 10) = Thrown("YTooHigh")

C8_Witness ==
  /\ outcome = "error" /\ err = "YTooHigh"
  /\ reqRow = arg.length /\ reqCol = 0
  /\ Len(arg.crossings) = 2

(***************************************************************************)
(* C9.  A successful request on a braid that satisfies the data-model      *)
(* invariants returns a braid of the same length and ropes whose crossing  *)
(* set differs from the input's only at the requested cell.                *)
(***************************************************************************)
C9_OnlyRequestedCellChanges ==
  (Called /\ outcome = "braid" /\ WellFormed(arg)) =>
    /\ ret.length = arg.length
    /\ ret.ropes = arg.ropes
    /\ MembersElsewhere(ret, reqRow, reqCol) = MembersElsewhere(arg, reqRow, reqCol)

(***************************************************************************)
(* C10.  An in-bounds request throws no error: it returns a braid or null, *)
(* and null only when the row holds a crossing at colIndex-1 or            *)
(* colIndex+1.                                                             *)
(***************************************************************************)
C10_InBoundsNeverThrows ==
  (Called /\ InBounds(arg, reqRow, reqCol)) =>
    /\ outcome \in {"braid", "null"}
    /\ err = "none"
    /\ outcome = "braid" => (ret # NoBraid /\ braid = ret)
    /\ outcome = "null" => HasAdjacent(arg, reqRow, reqCol)

C10_Witness ==
  /\ outcome = "braid"
  /\ reqRow = arg.length - 1 /\ reqCol = arg.ropes - 2
  /\ KindsAt(arg, reqRow, reqCol) # {}
  /\ Len(arg.crossings) = 2

(***************************************************************************)
(* C11.  In every braid reached from createBraid() by                      *)
(* handleCrossingRequest calls, every crossing has rowIndex in             *)
(* [0, length-1] and colIndex in [0, ropes-2].                             *)
(***************************************************************************)
C11_CrossingsInBounds == AllInBounds(braid)

C11_Witness ==
  /\ outcome = "error"
  /\ err = "XTooHigh"
  /\ Len(braid.crossings) >= 2

C13_InitialBraid ==
  ~Called =>
    /\ braid.length = 10
    /\ braid.ropes = 10
    /\ Members(braid) = {}
    /\ Len(braid.crossings) = 0

C13_Witness ==
  /\ ~Called
  /\ braid = [length |-> 10, ropes |-> 10, crossings |-> <<>>]

\* the error of the first violated range condition, in the order of the spec
FirstViolated(b, r, c) ==
  IF r < 0 THEN "NegativeY"
  ELSE IF c < 0 THEN "NegativeX"
  ELSE IF r > b.length - 1 THEN "YTooHigh"
  ELSE "XTooHigh"

(***************************************************************************)
(* C14.  A request that violates more than one range condition throws the  *)
(* error of the first violated condition in the order: negative row index, *)
(* negative column index, row index too large, column index too large      *)
(* (rowIndex = -1 with colIndex = ropes throws the negative-row error);    *)
(* the range checks precede the adjacency check, so an out-of-range        *)
(* request never returns null.                                             *)
(***************************************************************************)
C14_FirstViolatedCheckThrows ==
  /\ (Called /\ ~InBounds(arg, reqRow, reqCol)) =>
       /\ outcome # "null"
       /\ outcome = "error"
       /\ err = FirstViolated(arg, reqRow, reqCol)
  /\ Called =>
       handleCrossingRequest(createBraid, DefaultRopes, -1) = Thrown("NegativeY")

C14_Witness ==
  /\ Called
  /\ reqRow = -1 /\ reqCol = arg.ropes - 1
  /\ err = "NegativeY"
  /\ Len(arg.crossings) = 2

\* an out-of-range request next to a crossing: thrown, not rejected
C14_WitnessBesideCrossing ==
  /\ Called
  /\ reqCol = -1 /\ reqRow = arg.length - 1
  /\ 0 \in {x.colIndex : x \in {y \in Members(arg) : y.rowIndex = reqRow}}
  /\ err = "NegativeX"

(***************************************************************************)
(* C15.  In every braid reached from createBraid() by                      *)
(* handleCrossingRequest calls, a request at a cell that already holds a   *)
(* crossing is never rejected (never returns null): only requests at empty *)
(* cells are rejected.                                                     *)
(***************************************************************************)
C15_OccupiedCellNeverRejected ==
  /\ (Called /\ InBounds(arg, reqRow, reqCol) /\ KindsAt(arg, reqRow, reqCol) # {}) =>
       outcome = "braid"
  /\ outcome = "null" => KindsAt(arg, reqRow, reqCol) = {}

C15_Witness ==
  /\ outcome = "braid"
  /\ KindsAt(arg, reqRow, reqCol) # {}
  /\ \E x \in Members(arg) : x.rowIndex = reqRow /\ x.colIndex # reqCol

\* the braid the caller holds after one more request: the returned braid, or
\* the braid it had on null or a throw
Adopt(b, c, r) ==
  LET res == handleCrossingRequest(b, c, r)
  IN IF res.outcome = "braid" THEN res.ret ELSE b

\* every braid the caller can come to hold from the braids of frontier, by
\* the requests Next allows (a request above the window throws, and leaves
\* the caller's braid as it is)
RECURSIVE ReachableFrom(_, _)
ReachableFrom(seen, frontier) ==
  IF frontier = {} THEN seen
  ELSE LET next == {Adopt(b, c, r) :
                      b \in {f \in frontier : Len(f.crossings) <= MaxCrossings},
                      c \in (-1..MaxCol), r \in (-1..MaxRow)} \ seen
       IN ReachableFrom(seen \cup next, next)

(***************************************************************************)
(* C16.  From every braid reached from createBraid(), the braid with no    *)
(* crossings can be reached again by some finite sequence of               *)
(* handleCrossingRequest calls.                                            *)
(***************************************************************************)
C16_EmptyReachableAgain ==
  \E b \in ReachableFrom({braid}, {braid}) : b.crossings = <<>>

\* why it cannot: a call never takes a braid that holds a crossing to one
\* that holds none
C16_NeverEmptiedAgain ==
  [][braid.crossings # <<>> => braid'.crossings # <<>>]_vars

\* length * ceil((ropes - 1) / 2): the crossings a braid has room for when
\* no two are adjacent and no two share a cell
CeilHalf(n) == (n + 1) \div 2
Room(b) == b.length * CeilHalf(b.ropes - 1)

(***************************************************************************)
(* C17.  The number of members of the crossings set (counted as the Set    *)
(* holds them, as distinct objects) of a braid reached from createBraid()  *)
(* never exceeds length * ceil((ropes - 1) / 2) = 50, under any sequence   *)
(* of handleCrossingRequest calls.                                         *)
(***************************************************************************)
C17_MembersBounded ==
  /\ Room(createBraid) = 50
  /\ Len(braid.crossings) <= Room(braid)

(***************************************************************************)
(* C18.  Requests in different rows commute: for every braid reached from  *)
(* createBraid() and any two in-bounds locations with different rowIndex,  *)
(* the first request then the second (the caller adopting each non-null    *)
(* result and keeping its braid on null) gives the same crossing set,      *)
(* compared by (kind, rowIndex, colIndex), as the second then the first.   *)
(***************************************************************************)
C18_DifferentRowsCommute ==
  \A c1, c2 \in 0..MaxCol, r1, r2 \in 0..MaxRow :
    (r1 # r2 /\ InBounds(braid, r1, c1) /\ InBounds(braid, r2, c2)) =>
      Members(Adopt(Adopt(braid, c1, r1), c2, r2))
        = Members(Adopt(Adopt(braid, c2, r2), c1, r1))

====
